---------------------------- MODULE Spec2Model ----------------------------
(***************************************************************************)
(* SpeechLab voice-agent pipeline.                                         *)
(*                                                                         *)
(*   VoiceAgentService   frontend/src/App.js (the class that follows the   *)
(*                       router component; the controllers import it as    *)
(*                       services/voiceAgent)                              *)
(*   AudioProcessor      frontend/src/pages/Dashboard.js (the worklet)     *)
(*   PracticeConversation frontend/src/components/PracticeConversation.js  *)
(*                                                                         *)
(* One VoiceAgentService instance is modelled, with the one start() call   *)
(* the controllers make on an instance (PracticeConversation.js:91-93      *)
(* builds a new instance for every start).  JavaScript runs every handler  *)
(* to completion, and a promise continuation runs in the microtask         *)
(* checkpoint of the task that settled the promise, so one action is one   *)
(* task together with the continuations it releases.                       *)
(*                                                                         *)
(* Time of the playback clock is counted in samples (1/24000 s).           *)
(***************************************************************************)
EXTENDS Integers, Sequences, FiniteSets, TLC

(***************************************************************************)
(* Program constants                                                       *)
(***************************************************************************)
PromptLimit == 25000
PracticePromptLen == 6821
BytesPerSample == 2

(***************************************************************************)
(* Bounds of the model                                                     *)
(***************************************************************************)
MaxCalls == 2
MaxAudio == 2
MaxLog == 2
MaxStops == 2
MaxTimers == 2
MaxAnalyses == 2
MaxChunks == 10
MaxTicks == 2
MaxBargeChunks == 3
\* samples by which one step of the clock advances currentTime
TickSamples == 2400
\* ConversationText events of one session
MaxTexts == 2
\* ConversationText events of a session whose playback is followed
MaxBargeTexts == 1

Modes == {"coach", "practice"}
CoachPromptLens == {PromptLimit, PromptLimit + 1}
CallIds == 1..MaxCalls
FunctionNames == {"analyze_conversation_practice", "save_conversation_to_history",
                  "other", ""}
ArgKinds == {"none", "valid", "invalid"}
FetchOutcomes == {"ok", "notOk", "threw"}
ErrorKinds == {"INVALID_SETTINGS", "Buffer", "other"}
StopSteps == {"track.stop", "postMessage", "disconnect", "closeTransport", "audioContext.close"}
CloseApis == {"finish", "close", "send"}

VARIABLES
    \* VoiceAgentService fields (constructor, App.js:75-85)
    isActive, connection, mediaStream, audioContext, audioProcessor, conversationHistory,
    \* the start() call: its position, its closure and its outcome
    mode, startPc, rejectReason, configurationComplete, timeoutPending,
    connectionOpened, onErrorLog, warnings,
    \* the resources behind the handles, and what was done to them
    transport, closeSent, configureSent, audioSent, mic, micCtx, worklet, graph,
    \* the functions declared by the Settings message last sent
    settingsFunctions,
    calls, stopCount, stopThrew,
    \* resources that are live but that no field of a service the program
    \* still holds refers to
    orphaned,
    \* the ConversationText events the transport has emitted, in order
    emitted,
    \* tool calls
    toolPc, toolName, toolArgs, responses,
    \* PracticeConversation: React state, the values of it that the callbacks
    \* of the running session closed over, refs, timers, requests
    isVoiceActive, conversationEnded, capIsVoiceActive, capConversationEnded,
    voiceAgentRef, audioContextRef, waitingForFeedback,
    safetyTimers, fallbackTimers, saveRequests, navigated, conversationHistoryRef,
    \* PracticeConversation: playback
    clock, nextPlayTime, activeAudioSources, isAgentSpeaking, scheduled, detached

svcVars == <<isActive, connection, mediaStream, audioContext, audioProcessor,
             conversationHistory, mode, startPc, rejectReason, configurationComplete, timeoutPending,
             connectionOpened, onErrorLog, warnings>>
resVars == <<transport, closeSent, configureSent, settingsFunctions, audioSent, mic, micCtx, worklet, graph,
             calls, stopCount, stopThrew, orphaned, emitted>>
toolVars == <<toolPc, toolName, toolArgs, responses>>
ctlVars == <<isVoiceActive, conversationEnded, capIsVoiceActive, capConversationEnded,
             voiceAgentRef, audioContextRef, waitingForFeedback,
             safetyTimers, fallbackTimers, saveRequests, navigated,
             conversationHistoryRef>>
playVars == <<clock, nextPlayTime, activeAudioSources, isAgentSpeaking, scheduled, detached>>
vars == <<svcVars, resVars, toolVars, ctlVars, playVars>>

(***************************************************************************)
(* State after `new VoiceAgentService()`                                   *)
(***************************************************************************)
InitService ==
    /\ isActive = FALSE
    /\ connection = "null"
    /\ mediaStream = "null"
    /\ audioContext = "null"
    /\ audioProcessor = "null"
    /\ conversationHistory = <<>>
    /\ mode = "coach"
    /\ startPc = "idle"
    /\ rejectReason = "none"
    /\ configurationComplete = FALSE
    /\ timeoutPending = FALSE
    /\ connectionOpened = "none"
    /\ onErrorLog = <<>>
    /\ warnings = 0
    /\ transport = "none"
    /\ closeSent = "none"
    /\ configureSent = 0
    /\ settingsFunctions = {}
    /\ audioSent = 0
    /\ mic = "none"
    /\ micCtx = "none"
    /\ worklet = "none"
    /\ graph = "none"
    /\ calls = <<>>
    /\ stopCount = 0
    /\ stopThrew = FALSE
    /\ orphaned = [transport |-> "none", mic |-> "none", micCtx |-> "none"]
    /\ emitted = <<>>
    /\ toolPc = [i \in CallIds |-> "none"]
    /\ toolName = [i \in CallIds |-> ""]
    /\ toolArgs = [i \in CallIds |-> "none"]
    /\ responses = [i \in CallIds |-> 0]

(***************************************************************************)
(* State of a mounted PracticeConversation (PracticeConversation.js:9-24)  *)
(***************************************************************************)
InitController ==
    /\ isVoiceActive = FALSE
    /\ conversationEnded = FALSE
    /\ capIsVoiceActive = FALSE
    /\ capConversationEnded = FALSE
    /\ voiceAgentRef = "null"
    /\ audioContextRef = "null"
    /\ waitingForFeedback = FALSE
    /\ safetyTimers = 0
    /\ fallbackTimers = <<>>
    /\ saveRequests = <<>>
    /\ navigated = FALSE
    /\ conversationHistoryRef = <<>>
    /\ clock = 0
    /\ nextPlayTime = 0
    /\ activeAudioSources = <<>>
    /\ isAgentSpeaking = FALSE
    /\ scheduled = <<>>
    /\ detached = 0

(***************************************************************************)
(* start(): the catch block (App.js:470-474) reports the error through     *)
(* onError and rethrows, so the promise returned by start() is rejected.   *)
(***************************************************************************)
StartRejects(reason) ==
    /\ startPc' = "rejected"
    /\ rejectReason' = reason
    /\ onErrorLog' = Append(onErrorLog, reason)

\* start() that goes on to startMicrophone() without awaiting connectionOpened
startEager(m, promptLen) ==
    /\ startPc = "idle"
    /\ m = "practice" => promptLen = PracticePromptLen
    /\ mode' = m
    /\ IF promptLen > PromptLimit
       THEN /\ StartRejects("promptTooLarge")
            /\ UNCHANGED <<connection, transport, connectionOpened, timeoutPending>>
       ELSE /\ connection' = "conn"
            /\ transport' = "connecting"
            /\ connectionOpened' = "pending"
            /\ timeoutPending' = TRUE
            /\ startPc' = "awaitMedia"
            /\ UNCHANGED <<rejectReason, onErrorLog>>
    /\ configurationComplete' = FALSE
    /\ conversationHistory' = <<>>
    /\ UNCHANGED <<isActive, mediaStream, audioContext, audioProcessor, warnings,
                   closeSent, configureSent, settingsFunctions, audioSent, mic, micCtx, worklet, graph,
                   calls, stopCount, stopThrew, emitted, orphaned, toolVars>>

\* start() that arms no timer
startNoTimer(m, promptLen) ==
    /\ startPc = "idle"
    /\ m = "practice" => promptLen = PracticePromptLen
    /\ mode' = m
    /\ IF promptLen > PromptLimit
       THEN /\ StartRejects("promptTooLarge")
            /\ UNCHANGED <<connection, transport, connectionOpened, timeoutPending>>
       ELSE /\ connection' = "conn"
            /\ transport' = "connecting"
            /\ connectionOpened' = "pending"
            /\ timeoutPending' = FALSE
            /\ startPc' = "awaitOpen"
            /\ UNCHANGED <<rejectReason, onErrorLog>>
    /\ configurationComplete' = FALSE
    /\ conversationHistory' = <<>>
    /\ UNCHANGED <<isActive, mediaStream, audioContext, audioProcessor, warnings,
                   closeSent, configureSent, settingsFunctions, audioSent, mic, micCtx, worklet, graph,
                   calls, stopCount, stopThrew, emitted, orphaned, toolVars>>

(***************************************************************************)
(* start() up to `await connectionOpened` (App.js:87-118, 463).  A prompt  *)
(* over the budget throws before the connection is created.  The handlers  *)
(* of lines 119-460 are registered here; they are the On... actions.       *)
(***************************************************************************)
start(m, promptLen) ==
    /\ startPc = "idle"
    /\ m = "practice" => promptLen = PracticePromptLen
    /\ mode' = m
    /\ IF promptLen > PromptLimit
       THEN /\ StartRejects("promptTooLarge")
            /\ UNCHANGED <<connection, transport, connectionOpened, timeoutPending>>
       ELSE /\ connection' = "conn"
            /\ transport' = "connecting"
            /\ connectionOpened' = "pending"
            /\ timeoutPending' = TRUE
            /\ startPc' = "awaitOpen"
            /\ UNCHANGED <<rejectReason, onErrorLog>>
    /\ configurationComplete' = FALSE
    /\ conversationHistory' = <<>>
    /\ UNCHANGED <<isActive, mediaStream, audioContext, audioProcessor, warnings,
                   closeSent, configureSent, settingsFunctions, audioSent, mic, micCtx, worklet, graph,
                   calls, stopCount, stopThrew, emitted, orphaned, toolVars>>

(***************************************************************************)
(* start() called again on a service whose previous start() has resolved   *)
(* (App.js:87-118): nothing in start() looks at the fields, so the new     *)
(* connection replaces the handle of the old one, whose transport is left  *)
(* as it was.  isActive keeps its value.  The counters of messages are     *)
(* those of the connection the service holds.                              *)
(***************************************************************************)
startAgain(m, promptLen) ==
    /\ startPc = "resolved"
    /\ m = "practice" => promptLen = PracticePromptLen
    /\ mode' = m
    /\ IF promptLen > PromptLimit
       THEN /\ StartRejects("promptTooLarge")
            /\ UNCHANGED <<connection, transport, connectionOpened, timeoutPending,
                           closeSent, configureSent, settingsFunctions, audioSent, orphaned>>
       ELSE /\ orphaned' = [orphaned EXCEPT
                   !.transport = IF connection # "null" /\ transport \in {"connecting", "open"}
                                 THEN transport ELSE @]
            /\ connection' = "conn"
            /\ transport' = "connecting"
            /\ closeSent' = "none"
            /\ configureSent' = 0
            /\ settingsFunctions' = {}
            /\ audioSent' = 0
            /\ connectionOpened' = "pending"
            /\ timeoutPending' = TRUE
            /\ startPc' = "awaitOpen"
            /\ rejectReason' = "none"
            /\ UNCHANGED onErrorLog
    /\ configurationComplete' = FALSE
    /\ conversationHistory' = <<>>
    /\ emitted' = <<>>
    /\ UNCHANGED <<isActive, mediaStream, audioContext, audioProcessor, warnings,
                   mic, micCtx, worklet, graph, calls, stopCount, stopThrew, toolVars>>

\* the functions of the Settings message (App.js:153-204)
DeclaredFunctions(m) ==
    IF m = "practice"
    THEN {"analyze_conversation_practice", "save_conversation_to_history"}
    ELSE {}

(***************************************************************************)
(* AgentEvents.Open handler (App.js:119-224) and, when it resolves the     *)
(* promise, the continuation of start() up to getUserMedia (463-467,       *)
(* 479).  configure() on a null connection is a TypeError inside the try.  *)
(***************************************************************************)
OnOpen(configureOk) ==
    /\ transport = "connecting"
    /\ transport' = "open"
    /\ timeoutPending' = FALSE
    /\ isActive' = TRUE
    /\ IF connection # "null" /\ configureOk
       THEN /\ configureSent' = configureSent + 1
            /\ settingsFunctions' = DeclaredFunctions(mode)
            /\ configurationComplete' = TRUE
            /\ IF connectionOpened = "pending"
               THEN /\ connectionOpened' = "resolved"
                    /\ startPc' = "awaitMedia"
               ELSE UNCHANGED <<connectionOpened, startPc>>
            /\ UNCHANGED <<rejectReason, onErrorLog>>
       ELSE /\ UNCHANGED <<configureSent, settingsFunctions, configurationComplete>>
            /\ IF connectionOpened = "pending"
               THEN /\ connectionOpened' = "rejected"
                    /\ StartRejects("configure")
               ELSE UNCHANGED <<connectionOpened, startPc, rejectReason, onErrorLog>>
    /\ UNCHANGED <<connection, mediaStream, audioContext, audioProcessor, mode, conversationHistory, warnings,
                   closeSent, audioSent, mic, micCtx, worklet, graph,
                   calls, stopCount, stopThrew, emitted, orphaned, toolVars>>

\* a timer that stop() disarms without settling the promise
TimeoutDisarmedByStop ==
    /\ timeoutPending
    /\ timeoutPending' = FALSE
    /\ IF connectionOpened = "pending" /\ connection # "null"
       THEN /\ connectionOpened' = "rejected"
            /\ StartRejects("timeout")
       ELSE UNCHANGED <<connectionOpened, startPc, rejectReason, onErrorLog>>
    /\ UNCHANGED <<isActive, connection, mediaStream, audioContext, audioProcessor, mode, conversationHistory,
                   configurationComplete, warnings, resVars, toolVars>>

(***************************************************************************)
(* The 10 s timer of connectionOpened (App.js:115-117).                    *)
(***************************************************************************)
TimeoutFired ==
    /\ timeoutPending
    /\ timeoutPending' = FALSE
    /\ IF connectionOpened = "pending"
       THEN /\ connectionOpened' = "rejected"
            /\ StartRejects("timeout")
       ELSE UNCHANGED <<connectionOpened, startPc, rejectReason, onErrorLog>>
    /\ UNCHANGED <<isActive, connection, mediaStream, audioContext, audioProcessor, mode, conversationHistory,
                   configurationComplete, warnings, resVars, toolVars>>

\* an Error handler that reports every error through onError
OnErrorSurfaced(kind) ==
    /\ transport \in {"connecting", "open"}
    /\ IF ~configurationComplete
       THEN /\ timeoutPending' = FALSE
            /\ IF connectionOpened = "pending"
               THEN /\ connectionOpened' = "rejected"
                    /\ StartRejects("transportError")
               ELSE UNCHANGED <<connectionOpened, startPc, rejectReason, onErrorLog>>
            /\ UNCHANGED warnings
       ELSE /\ warnings + 2 <= MaxLog
            /\ warnings' = warnings + 2
            /\ onErrorLog' = Append(onErrorLog, "transportError")
            /\ UNCHANGED <<timeoutPending, connectionOpened, startPc, rejectReason>>
    /\ UNCHANGED <<isActive, connection, mediaStream, audioContext, audioProcessor, mode, conversationHistory,
                   configurationComplete, resVars, toolVars>>

(***************************************************************************)
(* AgentEvents.Error: both registered handlers run (App.js:226-239 and     *)
(* 312-323).  Before configuration the first one rejects the promise;      *)
(* after it each handler writes one console.warn unless the error is one   *)
(* of the two known kinds.                                                 *)
(***************************************************************************)
OnError(kind) ==
    /\ transport \in {"connecting", "open"}
    /\ IF ~configurationComplete
       THEN /\ timeoutPending' = FALSE
            /\ IF connectionOpened = "pending"
               THEN /\ connectionOpened' = "rejected"
                    /\ StartRejects("transportError")
               ELSE UNCHANGED <<connectionOpened, startPc, rejectReason, onErrorLog>>
            /\ UNCHANGED warnings
       ELSE /\ IF kind = "other"
               THEN /\ warnings + 2 <= MaxLog
                    /\ warnings' = warnings + 2
               ELSE UNCHANGED warnings
            /\ UNCHANGED <<timeoutPending, connectionOpened, startPc, rejectReason, onErrorLog>>
    /\ UNCHANGED <<isActive, connection, mediaStream, audioContext, audioProcessor, mode, conversationHistory,
                   configurationComplete, resVars, toolVars>>

(***************************************************************************)
(* AgentEvents.Close handler (App.js:325-328).  A transport that closes    *)
(* without ever having opened is "failed".                                 *)
(***************************************************************************)
OnClose ==
    /\ transport \in {"connecting", "open"}
    /\ transport' = IF transport = "open" THEN "closed" ELSE "failed"
    /\ isActive' = FALSE
    /\ UNCHANGED <<connection, mediaStream, audioContext, audioProcessor, mode, conversationHistory, startPc,
                   rejectReason, configurationComplete, timeoutPending, connectionOpened,
                   onErrorLog, warnings, closeSent, configureSent, settingsFunctions, audioSent, mic, micCtx,
                   worklet, graph, calls, stopCount, stopThrew, emitted, orphaned, toolVars>>

(***************************************************************************)
(* startMicrophone(), first suspension: getUserMedia settles               *)
(* (App.js:479-495).  On a grant the stream and a new AudioContext are     *)
(* stored and addModule is awaited; a denial is rethrown (543-546) into    *)
(* the catch of start().  A live stream or running context that the        *)
(* fields held is left without a reference.                                *)
(***************************************************************************)
GetUserMediaSettled(granted) ==
    /\ startPc = "awaitMedia"
    /\ IF granted
       THEN /\ mediaStream' = "stream"
            /\ mic' = "live"
            /\ audioContext' = "ctx"
            /\ micCtx' = "running"
            /\ orphaned' = [orphaned EXCEPT
                   !.mic = IF mediaStream # "null" /\ mic = "live" THEN "live" ELSE @,
                   !.micCtx = IF audioContext # "null" /\ micCtx = "running"
                              THEN "running" ELSE @]
            /\ startPc' = "awaitModule"
            /\ UNCHANGED <<rejectReason, onErrorLog>>
       ELSE /\ StartRejects("microphone")
            /\ UNCHANGED <<mediaStream, mic, audioContext, micCtx, orphaned>>
    /\ UNCHANGED <<isActive, connection, audioProcessor, mode, conversationHistory, configurationComplete,
                   timeoutPending, connectionOpened, warnings, transport, closeSent,
                   configureSent, settingsFunctions, audioSent, worklet, graph, calls, stopCount, stopThrew, emitted,
                   toolVars>>

(***************************************************************************)
(* startMicrophone(), second suspension: addModule settles                 *)
(* (App.js:494-541).  createMediaStreamSource on a context or stream that  *)
(* stop() has nulled meanwhile is a TypeError, rethrown like the others.   *)
(***************************************************************************)
AddModuleSettled(loaded) ==
    /\ startPc = "awaitModule"
    /\ IF ~loaded
       THEN /\ StartRejects("worklet")
            /\ UNCHANGED <<audioProcessor, worklet, graph>>
       ELSE IF audioContext = "null" \/ mediaStream = "null"
       THEN /\ StartRejects("microphone")
            /\ UNCHANGED <<audioProcessor, worklet, graph>>
       ELSE /\ audioProcessor' = "node"
            /\ worklet' = "running"
            /\ graph' = "connected"
            /\ startPc' = "resolved"
            /\ UNCHANGED <<rejectReason, onErrorLog>>
    /\ UNCHANGED <<isActive, connection, mediaStream, audioContext, mode, conversationHistory,
                   configurationComplete, timeoutPending, connectionOpened, warnings,
                   transport, closeSent, configureSent, settingsFunctions, audioSent, mic, micCtx,
                   calls, stopCount, stopThrew, emitted, orphaned, toolVars>>

\* port.onmessage without the test of line 513: every frame is forwarded
PortOnMessageForwardsAll ==
    /\ worklet \in {"running", "stopping"}
    /\ audioSent < MaxAudio
    /\ audioSent' = audioSent + 1
    /\ UNCHANGED <<svcVars, transport, closeSent, configureSent, settingsFunctions, mic, micCtx, worklet,
                   graph, calls, stopCount, stopThrew, emitted, orphaned, toolVars>>

(***************************************************************************)
(* audioProcessor.port.onmessage (App.js:512-539) for one frame posted by  *)
(* the worklet (Dashboard.js:164-189).  The worklet posts frames until it  *)
(* has taken the stop message.                                             *)
(***************************************************************************)
PortOnMessage ==
    /\ worklet \in {"running", "stopping"}
    /\ IF ~isActive \/ connection = "null"
       THEN UNCHANGED audioSent
       ELSE /\ audioSent < MaxAudio
            /\ audioSent' = audioSent + 1
    /\ UNCHANGED <<svcVars, transport, closeSent, configureSent, settingsFunctions, mic, micCtx, worklet,
                   graph, calls, stopCount, stopThrew, emitted, orphaned, toolVars>>

(***************************************************************************)
(* AudioProcessor's port.onmessage takes 'stop' (Dashboard.js:155-159);    *)
(* the next process() returns false (165-167).                             *)
(***************************************************************************)
WorkletStopReceived ==
    /\ worklet = "stopping"
    /\ worklet' = "stopped"
    /\ UNCHANGED <<svcVars, transport, closeSent, configureSent, settingsFunctions, audioSent, mic, micCtx,
                   graph, calls, stopCount, stopThrew, emitted, orphaned, toolVars>>

(***************************************************************************)
(* stop() (App.js:549-625).  threw is the set of external calls that       *)
(* throw in this invocation; api is the closing method the connection      *)
(* object offers (finish, else close, else a CloseStream message).         *)
(* Caught(step) says whether the call sits inside a try block.             *)
(***************************************************************************)
Caught(step) ==
    step \in {"track.stop", "postMessage", "disconnect", "closeTransport",
              "audioContext.close"}

\* the calls stop() makes, in order, given which of them throw
StopCalls(threw) ==
    (IF mediaStream # "null" THEN <<"track.stop">> ELSE <<>>)
    \o (IF audioProcessor # "null"
        THEN IF "postMessage" \in threw
             THEN <<"postMessage">>
             ELSE <<"postMessage", "disconnect">>
        ELSE <<>>)
    \o (IF connection # "null" THEN <<"closeTransport">> ELSE <<>>)
    \o (IF audioContext # "null" THEN <<"audioContext.close">> ELSE <<>>)

Made(threw) == {StopCalls(threw)[i] : i \in 1..Len(StopCalls(threw))}
Done(threw, step) == step \in Made(threw) /\ step \notin threw

\* stop() that closes the transport without clearing the handle first
stopKeepsConnection(threw, api) ==
    /\ stopCount < MaxStops
    /\ stopCount' = stopCount + 1
    /\ isActive' = FALSE
    /\ calls' = calls \o StopCalls(threw)
    /\ stopThrew' = (stopThrew \/ \E c \in Made(threw) \cap threw : ~Caught(c))
    /\ mic' = IF Done(threw, "track.stop") THEN "stopped" ELSE mic
    /\ mediaStream' = "null"
    /\ worklet' = IF Done(threw, "postMessage") /\ worklet = "running"
                  THEN "stopping" ELSE worklet
    /\ graph' = IF Done(threw, "disconnect") THEN "disconnected" ELSE graph
    /\ audioProcessor' = "null"
    /\ closeSent' = IF Done(threw, "closeTransport") THEN api ELSE closeSent
    /\ connection' = connection
    /\ micCtx' = IF Done(threw, "audioContext.close") THEN "closed" ELSE micCtx
    /\ audioContext' = "null"
    /\ UNCHANGED <<mode, conversationHistory, startPc, rejectReason, configurationComplete, timeoutPending,
                   connectionOpened, onErrorLog, warnings, transport, configureSent, settingsFunctions,
                   audioSent, orphaned, emitted, toolVars>>

stop(threw, api) ==
    /\ stopCount < MaxStops
    /\ stopCount' = stopCount + 1
    /\ isActive' = FALSE
    /\ calls' = calls \o StopCalls(threw)
    /\ stopThrew' = (stopThrew \/ \E c \in Made(threw) \cap threw : ~Caught(c))
    /\ mic' = IF Done(threw, "track.stop") THEN "stopped" ELSE mic
    /\ mediaStream' = "null"
    /\ worklet' = IF Done(threw, "postMessage") /\ worklet = "running"
                  THEN "stopping" ELSE worklet
    /\ graph' = IF Done(threw, "disconnect") THEN "disconnected" ELSE graph
    /\ audioProcessor' = "null"
    /\ closeSent' = IF Done(threw, "closeTransport") THEN api ELSE closeSent
    /\ connection' = "null"
    /\ micCtx' = IF Done(threw, "audioContext.close") THEN "closed" ELSE micCtx
    /\ audioContext' = "null"
    /\ UNCHANGED <<mode, conversationHistory, startPc, rejectReason, configurationComplete, timeoutPending,
                   connectionOpened, onErrorLog, warnings, transport, configureSent, settingsFunctions,
                   audioSent, orphaned, emitted, toolVars>>

\* a FunctionCallRequest handler that is registered in every mode
OnFunctionCallRequestAnyMode(id, name, args) ==
    /\ transport = "open"
    /\ configureSent > 0
    /\ toolPc[id] = "none"
    /\ toolPc' = [toolPc EXCEPT ![id] = "queued"]
    /\ toolName' = [toolName EXCEPT ![id] = name]
    /\ toolArgs' = [toolArgs EXCEPT ![id] = args]
    /\ UNCHANGED <<svcVars, resVars, responses>>

(***************************************************************************)
(* AgentEvents.FunctionCallRequest (App.js:331-337): registered in         *)
(* practice mode only; the handler defers the work with setTimeout(.., 0). *)
(* args is what JSON.parse makes of the event's arguments.  The agent      *)
(* raises calls only once it has been sent the Settings message.           *)
(***************************************************************************)
OnFunctionCallRequest(id, name, args) ==
    /\ transport = "open"
    /\ configureSent > 0
    /\ toolPc[id] = "none"
    /\ toolPc' = [toolPc EXCEPT ![id] = IF mode = "practice" THEN "queued" ELSE "unhandled"]
    /\ toolName' = [toolName EXCEPT ![id] = name]
    /\ toolArgs' = [toolArgs EXCEPT ![id] = args]
    /\ UNCHANGED <<svcVars, resVars, responses>>

\* connection.send({type: 'FunctionCallResponse', id, ...}) without its guard
SendResponseUnguarded(id) ==
    responses' = [responses EXCEPT ![id] = @ + 1]

\* connection.send({type: 'FunctionCallResponse', id, ...}) behind its guard
\* (App.js:432-439 and 449-456)
SendResponse(id) ==
    responses' = IF connection # "null"
                 THEN [responses EXCEPT ![id] = @ + 1]
                 ELSE responses

(***************************************************************************)
(* The deferred task up to its first await (App.js:337-384/402, 426-457).  *)
(* Arguments are parsed before the name is looked at; a parse error lands  *)
(* in the catch, which answers with an error payload.                      *)
(***************************************************************************)
FunctionCallTask(id) ==
    /\ toolPc[id] = "queued"
    /\ IF toolArgs[id] = "invalid"
       THEN /\ SendResponse(id)
            /\ toolPc' = [toolPc EXCEPT ![id] = "done"]
       ELSE IF toolName[id] = ""
       THEN /\ UNCHANGED responses
            /\ toolPc' = [toolPc EXCEPT ![id] = "done"]
       ELSE IF toolName[id] \in {"analyze_conversation_practice",
                                 "save_conversation_to_history"}
       THEN /\ UNCHANGED responses
            /\ toolPc' = [toolPc EXCEPT ![id] = "fetching"]
       ELSE /\ SendResponse(id)
            /\ toolPc' = [toolPc EXCEPT ![id] = "done"]
    /\ UNCHANGED <<svcVars, resVars, toolName, toolArgs>>

\* a bridge whose failed round trip is not answered
FetchSettledNoCatch(id, outcome) ==
    /\ toolPc[id] = "fetching"
    /\ IF outcome = "ok" THEN SendResponse(id) ELSE UNCHANGED responses
    /\ toolPc' = [toolPc EXCEPT ![id] = "done"]
    /\ UNCHANGED <<svcVars, resVars, toolName, toolArgs>>

(***************************************************************************)
(* The backend round trip settles (App.js:374-393, 402-425): a result, a   *)
(* non-OK response or a thrown fetch; the last two go through the catch    *)
(* (441-457).  Either way one send follows.                                *)
(***************************************************************************)
FetchSettled(id, outcome) ==
    /\ toolPc[id] = "fetching"
    /\ SendResponse(id)
    /\ toolPc' = [toolPc EXCEPT ![id] = "done"]
    /\ UNCHANGED <<svcVars, resVars, toolName, toolArgs>>

(***************************************************************************)
(* Inputs of stop() that can make a difference: only a call that stop()    *)
(* makes can throw, and the closing method matters only when there is a    *)
(* connection to close.                                                    *)
(***************************************************************************)
StopThrows == SUBSET Made({})
StopApis == IF connection = "null" THEN {"finish"} ELSE CloseApis

(***************************************************************************)
(* checkForEndSignal (PracticeConversation.js:46-56).  A transcript is a   *)
(* sequence of one-character strings.                                      *)
(***************************************************************************)
endSignals ==
    <<<<"t", "h", "a", "t", "'", "s", " ", "a", "l", "l">>,
       <<"t", "h", "a", "t", "s", " ", "a", "l", "l">>,
       <<"i", "'", "m", " ", "d", "o", "n", "e">>,
       <<"i", "m", " ", "d", "o", "n", "e">>,
       <<"i", " ", "a", "m", " ", "d", "o", "n", "e">>,
       <<"l", "e", "t", "'", "s", " ", "e", "n", "d">>,
       <<"l", "e", "t", "s", " ", "e", "n", "d">>,
       <<"f", "i", "n", "i", "s", "h">>,
       <<"s", "t", "o", "p">>,
       <<"e", "n", "d", " ", "c", "o", "n", "v", "e", "r", "s", "a", "t", "i", "o", "n">>,
       <<"w", "r", "a", "p", " ", "u", "p">>,
       <<"w", "e", "'", "r", "e", " ", "d", "o", "n", "e">>,
       <<"w", "e", "r", "e", " ", "d", "o", "n", "e">>,
       <<"a", "l", "l", " ", "d", "o", "n", "e">>,
       <<"c", "o", "n", "v", "e", "r", "s", "a", "t", "i", "o", "n", " ", "o", "v", "e", "r">>,
       <<"e", "n", "d", " ", "i", "t">>,
       <<"d", "o", "n", "e", " ", "t", "a", "l", "k", "i", "n", "g">>,
       <<"f", "i", "n", "i", "s", "h", "e", "d">>,
       <<"t", "h", "a", "t", "'", "s", " ", "i", "t">>,
       <<"t", "h", "a", "t", "s", " ", "i", "t">>>>

Upper == <<"A", "B", "C", "D", "E", "F", "G", "H", "I", "J", "K", "L", "M",
           "N", "O", "P", "Q", "R", "S", "T", "U", "V", "W", "X", "Y", "Z">>
Lower == <<"a", "b", "c", "d", "e", "f", "g", "h", "i", "j", "k", "l", "m",
           "n", "o", "p", "q", "r", "s", "t", "u", "v", "w", "x", "y", "z">>

\* a toLowerCase that leaves the letters as they are
keepCase(t) == t

toLowerCase(t) ==
    [i \in 1..Len(t) |->
        IF \E k \in 1..26 : Upper[k] = t[i]
        THEN Lower[CHOOSE k \in 1..26 : Upper[k] = t[i]]
        ELSE t[i]]

RECURSIVE trimStart(_)
trimStart(t) == IF t # <<>> /\ Head(t) = " " THEN trimStart(Tail(t)) ELSE t

RECURSIVE trimEnd(_)
trimEnd(t) ==
    IF t # <<>> /\ t[Len(t)] = " " THEN trimEnd(SubSeq(t, 1, Len(t) - 1)) ELSE t

trim(t) == trimEnd(trimStart(t))

includes(t, signal) ==
    \E i \in 1..(Len(t) - Len(signal) + 1) : SubSeq(t, i, i + Len(signal) - 1) = signal

checkForEndSignal(transcript) ==
    LET lowerTranscript == trim(toLowerCase(transcript))
    IN  \E k \in 1..Len(endSignals) : includes(lowerTranscript, endSignals[k])

(***************************************************************************)
(* Playback (PracticeConversation.js:58-72, 312-378).  `scheduled` is the  *)
(* timeline the audio context was given: for every source started, the     *)
(* bytes of its chunk, its start time and its duration.  A source is its   *)
(* index in `scheduled`; activeAudioSources is the tracking array;         *)
(* `detached` counts the sources that were stopped and whose ended event   *)
(* is still to be delivered.                                               *)
(***************************************************************************)
Max(a, b) == IF a >= b THEN a ELSE b

ValidChunk(len) == ~(len < 2 \/ len % BytesPerSample # 0)

\* stopAllAudio that leaves the playback time alone
stopAllAudioKeepsTime ==
    /\ detached' = detached + Len(activeAudioSources)
    /\ activeAudioSources' = <<>>
    /\ nextPlayTime' = nextPlayTime

\* stopAllAudio (58-72)
stopAllAudio ==
    /\ detached' = detached + Len(activeAudioSources)
    /\ activeAudioSources' = <<>>
    /\ nextPlayTime' = IF audioContextRef # "null" THEN clock ELSE 0

\* playAudioChunk that starts every source at the current time
playAudioChunkNow(len) ==
    IF audioContextRef = "null" \/ ~ValidChunk(len)
    THEN UNCHANGED <<nextPlayTime, activeAudioSources, scheduled>>
    ELSE LET sampleCount == len \div BytesPerSample
             startTime == clock
         IN  /\ scheduled' = Append(scheduled, [bytes |-> len, start |-> startTime,
                                                 dur |-> sampleCount])
             /\ activeAudioSources' = Append(activeAudioSources, Len(scheduled) + 1)
             /\ nextPlayTime' = startTime + sampleCount

\* playAudioChunk that starts every source at the playback time
playAudioChunkQueued(len) ==
    IF audioContextRef = "null" \/ ~ValidChunk(len)
    THEN UNCHANGED <<nextPlayTime, activeAudioSources, scheduled>>
    ELSE LET sampleCount == len \div BytesPerSample
             startTime == nextPlayTime
         IN  /\ scheduled' = Append(scheduled, [bytes |-> len, start |-> startTime,
                                                 dur |-> sampleCount])
             /\ activeAudioSources' = Append(activeAudioSources, Len(scheduled) + 1)
             /\ nextPlayTime' = startTime + sampleCount

\* playAudioChunk without the size test of lines 326-330
playAudioChunkUnchecked(len) ==
    IF audioContextRef = "null"
    THEN UNCHANGED <<nextPlayTime, activeAudioSources, scheduled>>
    ELSE LET sampleCount == len \div BytesPerSample
             startTime == Max(clock, nextPlayTime)
         IN  /\ scheduled' = Append(scheduled, [bytes |-> len, start |-> startTime,
                                                 dur |-> sampleCount])
             /\ activeAudioSources' = Append(activeAudioSources, Len(scheduled) + 1)
             /\ nextPlayTime' = startTime + sampleCount

\* playAudioChunk (312-378) for a Uint8Array of len bytes
playAudioChunk(len) ==
    IF audioContextRef = "null" \/ ~ValidChunk(len)
    THEN UNCHANGED <<nextPlayTime, activeAudioSources, scheduled>>
    ELSE LET sampleCount == len \div BytesPerSample
             startTime == Max(clock, nextPlayTime)
         IN  /\ scheduled' = Append(scheduled, [bytes |-> len, start |-> startTime,
                                                 dur |-> sampleCount])
             /\ activeAudioSources' = Append(activeAudioSources, Len(scheduled) + 1)
             /\ nextPlayTime' = startTime + sampleCount

(***************************************************************************)
(* stopVoiceAgent (PracticeConversation.js:272-301), with the service's    *)
(* stop() inside it.                                                       *)
(***************************************************************************)
stopVoiceAgent(api) ==
    /\ detached' = detached + Len(activeAudioSources)
    /\ activeAudioSources' = <<>>
    /\ IF voiceAgentRef # "null"
       THEN stop({}, api)
       ELSE UNCHANGED <<svcVars, resVars, toolVars>>
    /\ voiceAgentRef' = "null"
    /\ audioContextRef' = "null"
    /\ nextPlayTime' = 0
    /\ isAgentSpeaking' = FALSE
    /\ isVoiceActive' = FALSE
    /\ conversationEnded' = FALSE
    /\ waitingForFeedback' = FALSE
    /\ UNCHANGED <<clock, scheduled>>

(***************************************************************************)
(* What the controller does when start() settles in this task              *)
(* (PracticeConversation.js:93, 142-159, 238-246): on success              *)
(* setIsVoiceActive(true); on failure the onError callback and the catch,  *)
(* which change no ref and no state but the status line, unless the        *)
(* callback takes its "normal end" branch.                                 *)
(***************************************************************************)
AfterStartSettles ==
    IF startPc' = "resolved" /\ startPc # "resolved"
    THEN /\ isVoiceActive' = TRUE
         /\ UNCHANGED waitingForFeedback
    ELSE IF startPc' = "rejected" /\ startPc # "rejected"
              /\ ~(~waitingForFeedback \/ ~capConversationEnded)
    THEN /\ isVoiceActive' = FALSE
         /\ waitingForFeedback' = FALSE
    ELSE UNCHANGED <<isVoiceActive, waitingForFeedback>>

Lifecycle(A) ==
    /\ A
    /\ AfterStartSettles
    /\ UNCHANGED <<conversationEnded, capIsVoiceActive, capConversationEnded,
                   voiceAgentRef, audioContextRef, safetyTimers, fallbackTimers,
                   saveRequests, navigated, conversationHistoryRef, playVars>>

(***************************************************************************)
(* startVoiceAgent up to its await (PracticeConversation.js:75-93): the    *)
(* Start button is rendered while isVoiceActive is false; the callbacks    *)
(* created here keep the isVoiceActive and conversationEnded of the        *)
(* render the click came from.                                             *)
(***************************************************************************)
startVoiceAgent ==
    /\ ~isVoiceActive
    /\ ~navigated
    /\ capIsVoiceActive' = isVoiceActive
    /\ capConversationEnded' = conversationEnded
    /\ conversationEnded' = FALSE
    /\ audioContextRef' = "ctx"
    /\ clock' = 0
    /\ nextPlayTime' = 0
    /\ voiceAgentRef' = "svc"
    /\ conversationHistoryRef' = <<>>
    /\ start("practice", PracticePromptLen)
    /\ UNCHANGED <<isVoiceActive, waitingForFeedback, safetyTimers, fallbackTimers,
                   saveRequests, navigated, activeAudioSources, isAgentSpeaking,
                   scheduled, detached>>

(***************************************************************************)
(* startVoiceAgent on a controller that has created a service before       *)
(* (PracticeConversation.js:75-93).  Nothing is tested before the click is *)
(* served: a new VoiceAgentService replaces voiceAgentRef.current and is   *)
(* started.  Whatever the replaced service still holds (a transport that   *)
(* is connecting or open, a live stream, a running context) is left        *)
(* without a reference; of its later events only the opening of its        *)
(* transport is followed.                                                  *)
(***************************************************************************)
startVoiceAgentAgain ==
    /\ ~isVoiceActive
    /\ ~navigated
    /\ startPc # "idle"
    /\ orphaned' = [orphaned EXCEPT
           !.transport = IF connection # "null" /\ transport \in {"connecting", "open"}
                         THEN transport ELSE @,
           !.mic = IF mediaStream # "null" /\ mic = "live" THEN "live" ELSE @,
           !.micCtx = IF audioContext # "null" /\ micCtx = "running" THEN "running" ELSE @]
    /\ capIsVoiceActive' = isVoiceActive
    /\ capConversationEnded' = conversationEnded
    /\ conversationEnded' = FALSE
    /\ audioContextRef' = "ctx"
    /\ clock' = 0
    /\ nextPlayTime' = 0
    /\ voiceAgentRef' = "svc"
    \* new VoiceAgentService()
    /\ isActive' = FALSE
    /\ mediaStream' = "null"
    /\ audioContext' = "null"
    /\ audioProcessor' = "null"
    /\ onErrorLog' = <<>>
    /\ warnings' = 0
    /\ closeSent' = "none"
    /\ configureSent' = 0
    /\ settingsFunctions' = {}
    /\ audioSent' = 0
    /\ mic' = "none"
    /\ micCtx' = "none"
    /\ worklet' = "none"
    /\ graph' = "none"
    /\ calls' = <<>>
    /\ toolPc' = [i \in CallIds |-> "none"]
    /\ toolName' = [i \in CallIds |-> ""]
    /\ toolArgs' = [i \in CallIds |-> "none"]
    /\ responses' = [i \in CallIds |-> 0]
    \* its start('practice')
    /\ mode' = "practice"
    /\ connection' = "conn"
    /\ transport' = "connecting"
    /\ connectionOpened' = "pending"
    /\ timeoutPending' = TRUE
    /\ startPc' = "awaitOpen"
    /\ rejectReason' = "none"
    /\ configurationComplete' = FALSE
    /\ conversationHistory' = <<>>
    /\ conversationHistoryRef' = <<>>
    /\ emitted' = <<>>
    /\ UNCHANGED <<stopCount, stopThrew, isVoiceActive, waitingForFeedback, safetyTimers,
                   fallbackTimers, saveRequests, navigated, activeAudioSources,
                   isAgentSpeaking, scheduled, detached>>

(***************************************************************************)
(* AgentEvents.Open (App.js:119-124) on the connection of a service that    *)
(* the controller has replaced.                                            *)
(***************************************************************************)
OrphanedOpen ==
    /\ orphaned.transport = "connecting"
    /\ orphaned' = [orphaned EXCEPT !.transport = "open"]
    /\ UNCHANGED <<svcVars, transport, closeSent, configureSent, settingsFunctions, audioSent, mic, micCtx,
                   worklet, graph, calls, stopCount, stopThrew, emitted, toolVars, ctlVars, playVars>>

\* the End button (PracticeConversation.js:432-438)
ClickStop ==
    /\ isVoiceActive
    /\ ~navigated
    /\ \E api \in StopApis : stopVoiceAgent(api)
    /\ UNCHANGED <<capIsVoiceActive, capConversationEnded, safetyTimers, fallbackTimers,
                   saveRequests, navigated, conversationHistoryRef>>

(***************************************************************************)
(* handleConversationEnd (PracticeConversation.js:248-270), as the         *)
(* onTranscript callback of the session sees it.                           *)
(***************************************************************************)
handleConversationEnd ==
    IF capConversationEnded
    THEN UNCHANGED <<conversationEnded, waitingForFeedback, safetyTimers>>
    ELSE /\ conversationEnded' = TRUE
         /\ waitingForFeedback' = TRUE
         /\ safetyTimers' = safetyTimers + 1

\* onTranscript without lines 99-102: the turn is logged over the playing audio
onTranscriptOverAudio(transcript) ==
    /\ UNCHANGED <<detached, activeAudioSources, nextPlayTime, isAgentSpeaking>>
    /\ conversationHistoryRef' =
           Append(conversationHistoryRef, [role |-> "user", content |-> transcript])
    /\ IF checkForEndSignal(transcript)
       THEN /\ safetyTimers < MaxTimers
            /\ handleConversationEnd
       ELSE UNCHANGED <<conversationEnded, waitingForFeedback, safetyTimers>>

(***************************************************************************)
(* The onTranscript callback (PracticeConversation.js:97-112): barge-in,   *)
(* the user's turn pushed on the controller's log, the end signal.         *)
(***************************************************************************)
onTranscript(transcript) ==
    /\ IF isAgentSpeaking \/ Len(activeAudioSources) > 0
       THEN /\ stopAllAudio
            /\ isAgentSpeaking' = FALSE
       ELSE UNCHANGED <<detached, activeAudioSources, nextPlayTime, isAgentSpeaking>>
    /\ conversationHistoryRef' =
           Append(conversationHistoryRef, [role |-> "user", content |-> transcript])
    /\ IF checkForEndSignal(transcript)
       THEN /\ safetyTimers < MaxTimers
            /\ handleConversationEnd
       ELSE UNCHANGED <<conversationEnded, waitingForFeedback, safetyTimers>>

(***************************************************************************)
(* The onAgentText callback (PracticeConversation.js:120-139): the agent's *)
(* turn pushed on the controller's log; the rest only sets the status line.*)
(***************************************************************************)
onAgentText(agentText) ==
    /\ conversationHistoryRef' =
           Append(conversationHistoryRef, [role |-> "assistant", content |-> agentText])
    /\ UNCHANGED <<detached, activeAudioSources, nextPlayTime, isAgentSpeaking,
                   conversationEnded, waitingForFeedback, safetyTimers>>

(***************************************************************************)
(* AgentEvents.ConversationText handler (App.js:243-271).  role is         *)
(* message.role || message.sender ("none" when both are missing), content  *)
(* is message.content || message.text || message.message (<<>> when all    *)
(* are missing or empty).  An event with content and any other role falls  *)
(* through both branches.                                                  *)
(***************************************************************************)
OnConversationText(role, content) ==
    /\ transport = "open"
    /\ emitted' = Append(emitted, [role |-> role, content |-> content])
    /\ IF content # <<>> /\ role \in {"user", "none"}
       THEN /\ conversationHistory' =
                   Append(conversationHistory, [role |-> "user", content |-> content])
            /\ onTranscript(content)
       ELSE IF content # <<>> /\ role \in {"agent", "assistant"}
       THEN /\ conversationHistory' =
                   Append(conversationHistory, [role |-> "assistant", content |-> content])
            /\ onAgentText(content)
       ELSE UNCHANGED <<conversationHistory, conversationHistoryRef, detached,
                        activeAudioSources, nextPlayTime, isAgentSpeaking,
                        conversationEnded, waitingForFeedback, safetyTimers>>
    /\ UNCHANGED <<isActive, connection, mediaStream, audioContext, audioProcessor, mode,
                   startPc, rejectReason, configurationComplete, timeoutPending,
                   connectionOpened, onErrorLog, warnings,
                   transport, closeSent, configureSent, settingsFunctions, audioSent, mic, micCtx, worklet,
                   graph, calls, stopCount, stopThrew, orphaned,
                   toolVars, isVoiceActive, capIsVoiceActive,
                   capConversationEnded, voiceAgentRef, audioContextRef, fallbackTimers,
                   saveRequests, navigated, clock, scheduled>>

(***************************************************************************)
(* AgentEvents.ConversationText with content for role 'user'               *)
(* (App.js:243-256) and the onTranscript callback                          *)
(* (PracticeConversation.js:97-112).                                       *)
(***************************************************************************)
OnUserTranscript(transcript) == OnConversationText("user", transcript)

(***************************************************************************)
(* AgentEvents.Audio (App.js:274-308) and the onAgentSpeaking callback     *)
(* (PracticeConversation.js:115-118).  kind is the type of the payload,    *)
(* len the number of bytes it normalises to.                               *)
(***************************************************************************)
OnAudio(kind, len) ==
    /\ transport = "open"
    /\ IF kind \in {"ArrayBuffer", "Uint8Array", "string"} /\ len > 0
       THEN /\ isAgentSpeaking' = TRUE
            /\ playAudioChunk(len)
       ELSE UNCHANGED <<isAgentSpeaking, nextPlayTime, activeAudioSources, scheduled>>
    /\ UNCHANGED <<svcVars, resVars, toolVars, ctlVars, clock, detached>>

(***************************************************************************)
(* source.onended (PracticeConversation.js:361-370) for a tracked source   *)
(* that has played to its end.                                             *)
(***************************************************************************)
Remove(seq, x) == SelectSeq(seq, LAMBDA y : y # x)

OnEnded(src) ==
    /\ \E k \in 1..Len(activeAudioSources) : activeAudioSources[k] = src
    /\ scheduled[src].start + scheduled[src].dur <= clock
    /\ activeAudioSources' = Remove(activeAudioSources, src)
    /\ isAgentSpeaking' = IF activeAudioSources' = <<>> THEN FALSE ELSE isAgentSpeaking
    /\ UNCHANGED <<svcVars, resVars, toolVars, ctlVars, clock, nextPlayTime, scheduled,
                   detached>>

(***************************************************************************)
(* source.onended for a source that stopAllAudio stopped: it is no longer  *)
(* in the tracking array (indexOf is -1).                                  *)
(***************************************************************************)
OnEndedStopped ==
    /\ detached > 0
    /\ detached' = detached - 1
    /\ isAgentSpeaking' = IF activeAudioSources = <<>> THEN FALSE ELSE isAgentSpeaking
    /\ UNCHANGED <<svcVars, resVars, toolVars, ctlVars, clock, nextPlayTime, scheduled,
                   activeAudioSources>>

(***************************************************************************)
(* audioContextRef.current.currentTime advances while the context lives.   *)
(***************************************************************************)
Tick ==
    /\ audioContextRef # "null"
    /\ clock' = clock + TickSamples
    /\ UNCHANGED <<svcVars, resVars, toolVars, ctlVars, nextPlayTime, activeAudioSources,
                   isAgentSpeaking, scheduled, detached>>

(***************************************************************************)
(* The 30 s safety timer (PracticeConversation.js:262-269).                *)
(***************************************************************************)
SafetyTimerFired ==
    /\ safetyTimers > 0
    /\ safetyTimers' = safetyTimers - 1
    /\ IF waitingForFeedback /\ voiceAgentRef # "null" /\ capIsVoiceActive
       THEN \E api \in StopApis : stopVoiceAgent(api)
       ELSE UNCHANGED <<svcVars, resVars, toolVars, isVoiceActive, conversationEnded,
                        voiceAgentRef, audioContextRef, waitingForFeedback, playVars>>
    /\ UNCHANGED <<capIsVoiceActive, capConversationEnded, fallbackTimers, saveRequests,
                   navigated, conversationHistoryRef>>

(***************************************************************************)
(* The "analysis complete" callback (PracticeConversation.js:164-210):     *)
(* keeps the analysis and arms the 8 s fallback timer.                     *)
(***************************************************************************)
OnAnalysisComplete(analysis) ==
    /\ startPc # "idle"
    /\ voiceAgentRef # "null"
    /\ Len(fallbackTimers) < MaxAnalyses
    /\ fallbackTimers' = Append(fallbackTimers, analysis)
    /\ UNCHANGED <<svcVars, resVars, toolVars, isVoiceActive, conversationEnded,
                   capIsVoiceActive, capConversationEnded, voiceAgentRef, audioContextRef,
                   waitingForFeedback, safetyTimers, saveRequests, navigated, conversationHistoryRef, playVars>>

(***************************************************************************)
(* The fallback timer (PracticeConversation.js:172-209): the request to    *)
(* save-practice-history is issued when the test of line 174 passes.       *)
(***************************************************************************)
FallbackTimerFired ==
    /\ fallbackTimers # <<>>
    /\ fallbackTimers' = Tail(fallbackTimers)
    /\ IF capIsVoiceActive /\ voiceAgentRef # "null"
       THEN saveRequests' = Append(saveRequests, Head(fallbackTimers))
       ELSE UNCHANGED saveRequests
    /\ UNCHANGED <<svcVars, resVars, toolVars, isVoiceActive, conversationEnded,
                   capIsVoiceActive, capConversationEnded, voiceAgentRef, audioContextRef,
                   waitingForFeedback, safetyTimers, navigated, conversationHistoryRef, playVars>>

(***************************************************************************)
(* The "save complete" callback (PracticeConversation.js:213-235).         *)
(***************************************************************************)
OnSaveComplete(sessionId) ==
    /\ startPc # "idle"
    /\ voiceAgentRef # "null"
    /\ ~navigated
    /\ IF sessionId = "null"
       THEN UNCHANGED <<svcVars, resVars, toolVars, isVoiceActive, conversationEnded,
                        voiceAgentRef, audioContextRef, waitingForFeedback, navigated,
                        playVars>>
       ELSE /\ \E api \in StopApis : stopVoiceAgent(api)
            /\ navigated' = TRUE
    /\ UNCHANGED <<capIsVoiceActive, capConversationEnded, safetyTimers, fallbackTimers,
                   saveRequests, conversationHistoryRef>>

(***************************************************************************)
(* Spec: the life cycle of the service, driven by a client that calls      *)
(* start() and stop() and by the transport, the timer, the microphone      *)
(* grant and the capture worklet.                                          *)
(***************************************************************************)
Init == InitService /\ InitController

ClientStart ==
    /\ \E m \in Modes, len \in CoachPromptLens \cup {PracticePromptLen} : start(m, len)
    /\ UNCHANGED <<ctlVars, playVars>>
ClientStop ==
    /\ \E t \in StopThrows, api \in StopApis : stop(t, api)
    /\ UNCHANGED <<ctlVars, playVars>>
TransportOpen ==
    /\ \E ok \in BOOLEAN : OnOpen(ok)
    /\ UNCHANGED <<ctlVars, playVars>>
TimerFired ==
    /\ TimeoutFired
    /\ UNCHANGED <<ctlVars, playVars>>
TransportError ==
    /\ \E k \in ErrorKinds : OnError(k)
    /\ UNCHANGED <<ctlVars, playVars>>
TransportClose ==
    /\ OnClose
    /\ UNCHANGED <<ctlVars, playVars>>
MediaSettled ==
    /\ \E g \in BOOLEAN : GetUserMediaSettled(g)
    /\ UNCHANGED <<ctlVars, playVars>>
ModuleSettled ==
    /\ \E l \in BOOLEAN : AddModuleSettled(l)
    /\ UNCHANGED <<ctlVars, playVars>>
WorkletFrame ==
    /\ PortOnMessage
    /\ UNCHANGED <<ctlVars, playVars>>
WorkletStop ==
    /\ WorkletStopReceived
    /\ UNCHANGED <<ctlVars, playVars>>

Next ==
    \/ ClientStart
    \/ ClientStop
    \/ TransportOpen
    \/ TimerFired
    \/ TransportError
    \/ TransportClose
    \/ MediaSettled
    \/ ModuleSettled
    \/ WorkletFrame
    \/ WorkletStop

Spec == Init /\ [][Next]_vars

(***************************************************************************)
(* SpecTools: a session with the tool bridge.  The transport raises        *)
(* FunctionCallRequest events; the client may stop the session while a     *)
(* call is in flight.                                                      *)
(***************************************************************************)
ToolRequest ==
    /\ \E id \in CallIds, n \in FunctionNames, a \in ArgKinds :
           OnFunctionCallRequest(id, n, a)
    /\ UNCHANGED <<ctlVars, playVars>>
ToolTask ==
    /\ \E id \in CallIds : FunctionCallTask(id)
    /\ UNCHANGED <<ctlVars, playVars>>
ToolFetch ==
    /\ \E id \in CallIds, o \in FetchOutcomes : FetchSettled(id, o)
    /\ UNCHANGED <<ctlVars, playVars>>

NextTools ==
    \/ ClientStart
    \/ ClientStop
    \/ TransportOpen
    \/ TransportClose
    \/ ToolRequest
    \/ ToolTask
    \/ ToolFetch

SpecTools == Init /\ [][NextTools]_vars

(***************************************************************************)
(* SpecCtl: a mounted PracticeConversation and its session: the buttons,   *)
(* the session's life cycle, user transcripts, the two tool-bridge         *)
(* callbacks and the two timers.                                           *)
(***************************************************************************)
Transcripts ==
    {<<"o", "k">>, <<"S", "t", "o", "p", " ">>}
Analyses == {"analysis1", "analysis2"}
SessionIds == {"null", "session1"}

CtlOpen == Lifecycle(\E ok \in BOOLEAN : OnOpen(ok))
CtlTimer == Lifecycle(TimeoutFired)
CtlError == Lifecycle(\E k \in ErrorKinds : OnError(k))
CtlClose == Lifecycle(OnClose)
CtlMedia == Lifecycle(\E g \in BOOLEAN : GetUserMediaSettled(g))
CtlModule == Lifecycle(\E l \in BOOLEAN : AddModuleSettled(l))
UserTranscript ==
    /\ Len(emitted) < MaxTexts
    /\ \E t \in Transcripts : OnUserTranscript(t)
AnalysisReady == \E a \in Analyses : OnAnalysisComplete(a)
Persisted == \E sid \in SessionIds : OnSaveComplete(sid)

NextCtl ==
    \/ startVoiceAgent
    \/ ClickStop
    \/ CtlOpen
    \/ CtlTimer
    \/ CtlError
    \/ CtlClose
    \/ CtlMedia
    \/ CtlModule
    \/ UserTranscript
    \/ AnalysisReady
    \/ Persisted
    \/ SafetyTimerFired
    \/ FallbackTimerFired

SpecCtl == Init /\ [][NextCtl]_vars

(***************************************************************************)
(* SpecPlay: the playback side of PracticeConversation in a session that   *)
(* is not interrupted: audio events, the clock, and the ended events of    *)
(* the sources that have played out.                                       *)
(***************************************************************************)
AudioKinds == {"ArrayBuffer", "string", "object"}
ChunkBytes == {0, 5, 2, 4800}

AudioEvent ==
    /\ Len(scheduled) < MaxChunks
    /\ \E k \in AudioKinds, len \in ChunkBytes : OnAudio(k, len)
\* sources finish, and their ended events arrive, in the order they were started
SourceEnded ==
    /\ activeAudioSources # <<>>
    /\ OnEnded(Head(activeAudioSources))
ClockTick ==
    /\ clock < MaxTicks * TickSamples
    /\ Tick

NextPlay ==
    \/ startVoiceAgent
    \/ CtlOpen
    \/ AudioEvent
    \/ SourceEnded
    \/ ClockTick

SpecPlay == Init /\ [][NextPlay]_vars

(***************************************************************************)
(* SpecBarge: SpecPlay with user turns that barge in, the ended events of  *)
(* the sources they stop, and the End button.                              *)
(***************************************************************************)
BargeAudioEvent ==
    /\ Len(scheduled) < MaxBargeChunks
    /\ \E k \in AudioKinds, len \in ChunkBytes : OnAudio(k, len)
PlainTranscript ==
    /\ Len(emitted) < MaxBargeTexts
    /\ OnUserTranscript(<<"o", "k">>)

NextBarge ==
    \/ startVoiceAgent
    \/ ClickStop
    \/ CtlOpen
    \/ CtlMedia
    \/ CtlModule
    \/ BargeAudioEvent
    \/ SourceEnded
    \/ OnEndedStopped
    \/ ClockTick
    \/ PlainTranscript

SpecBarge == Init /\ [][NextBarge]_vars

FairSpec == Spec /\ WF_vars(TimerFired)

(***************************************************************************)
(* SpecRestart: Spec with a client that may call start() again on the      *)
(* service once the previous call has resolved.                            *)
(***************************************************************************)
ClientRestart ==
    /\ \E m \in Modes, len \in CoachPromptLens \cup {PracticePromptLen} : startAgain(m, len)
    /\ UNCHANGED <<ctlVars, playVars>>

NextRestart ==
    \/ ClientStart
    \/ ClientRestart
    \/ ClientStop
    \/ TransportOpen
    \/ TimerFired
    \/ TransportError
    \/ TransportClose
    \/ MediaSettled
    \/ ModuleSettled
    \/ WorkletFrame
    \/ WorkletStop

SpecRestart == Init /\ [][NextRestart]_vars

(***************************************************************************)
(* SpecReclick: SpecCtl with a Start button that is clicked again, while   *)
(* the previous start is still in flight or after the session has ended.   *)
(***************************************************************************)
NextReclick ==
    \/ startVoiceAgent
    \/ startVoiceAgentAgain
    \/ OrphanedOpen
    \/ ClickStop
    \/ CtlOpen
    \/ CtlTimer
    \/ CtlError
    \/ CtlClose
    \/ CtlMedia
    \/ CtlModule
    \/ UserTranscript
    \/ Persisted
    \/ SafetyTimerFired

SpecReclick == Init /\ [][NextReclick]_vars

(***************************************************************************)
(* SpecText: a practice session whose transport emits ConversationText     *)
(* events of every role, with and without content, until the End button.   *)
(***************************************************************************)
TextRoles == {"user", "none", "agent", "assistant", "system"}
TextContents == Transcripts \cup {<<>>}

TextEvent ==
    /\ Len(emitted) < MaxTexts
    /\ \E r \in TextRoles, c \in TextContents : OnConversationText(r, c)

NextText ==
    \/ startVoiceAgent
    \/ ClickStop
    \/ CtlOpen
    \/ CtlMedia
    \/ CtlModule
    \/ TextEvent

SpecText == Init /\ [][NextText]_vars

(***************************************************************************)
(* SpecDrop: SpecPlay over a few chunks, those of a single byte included.  *)
(***************************************************************************)
DropChunkBytes == ChunkBytes \cup {1}

DropAudioEvent ==
    /\ Len(scheduled) < MaxBargeChunks
    /\ \E k \in AudioKinds, len \in DropChunkBytes : OnAudio(k, len)

NextDrop ==
    \/ startVoiceAgent
    \/ CtlOpen
    \/ DropAudioEvent
    \/ SourceEnded
    \/ ClockTick

SpecDrop == Init /\ [][NextDrop]_vars

(***************************************************************************)
(* SpecBridge: a mounted PracticeConversation whose session serves tool    *)
(* calls.  start() takes six parameters (App.js:87); the two callbacks     *)
(* that startVoiceAgent passes after the mode                              *)
(* (PracticeConversation.js:164-235) are bound to none of them, and the    *)
(* FunctionCallRequest handler (App.js:331-460) calls nothing but fetch    *)
(* and connection.send: the bridge leaves the controller as it is.         *)
(***************************************************************************)
NextBridge ==
    \/ startVoiceAgent
    \/ ClickStop
    \/ CtlOpen
    \/ CtlMedia
    \/ CtlModule
    \/ ToolRequest
    \/ ToolTask
    \/ ToolFetch

SpecBridge == Init /\ [][NextBridge]_vars

(***************************************************************************)
(* SpecModes: a session of either mode whose transport raises              *)
(* FunctionCallRequest events until it closes.                             *)
(***************************************************************************)
NextModes ==
    \/ ClientStart
    \/ TransportOpen
    \/ TransportClose
    \/ ToolRequest
    \/ ToolTask
    \/ ToolFetch

SpecModes == Init /\ [][NextModes]_vars

(***************************************************************************)
(* SpecPhrase: a practice session whose user turns are drawn from phrases  *)
(* with and without an end signal, in several letter cases.                *)
(***************************************************************************)
Phrases ==
    {<<"l", "e", "t", "'", "s", " ", "e", "n", "d", " ", "t", "h", "i", "s", " ", "n", "o", "w">>,
     <<"L", "E", "T", "'", "S", " ", "E", "N", "D">>,
     <<"I", " ", "e", "n", "d", "e", "d", " ", "u", "p", " ", "g", "o", "i", "n", "g", " ", "h", "o", "m", "e">>,
     <<"o", "k">>,
     <<" ", "F", "i", "n", "i", "s", "h", "e", "d", " ">>,
     <<"T", "h", "a", "t", "'", "s", " ", "I", "t">>,
     <<"w", "e", " ", "a", "r", "e", " ", "d", "o", "n", "e", "?">>,
     <<"u", "n", "S", "T", "O", "P", "p", "a", "b", "l", "e">>}

PhraseTranscript ==
    /\ Len(emitted) < MaxTexts
    /\ \E t \in Phrases : OnUserTranscript(t)

NextPhrase ==
    \/ startVoiceAgent
    \/ CtlOpen
    \/ PhraseTranscript

SpecPhrase == Init /\ [][NextPhrase]_vars

(***************************************************************************)
(* Properties                                                              *)
(***************************************************************************)
AllNull ==
    /\ connection = "null"
    /\ mediaStream = "null"
    /\ audioProcessor = "null"
    /\ audioContext = "null"

Named(id) == toolName[id] # ""

\* C1 as stated: every tool call that carries an id and a name and that the
\* practice session has finished handling was answered with exactly one
\* FunctionCallResponse of that id.
C1_ExactlyOneResponse ==
    \A id \in CallIds :
        (toolPc[id] = "done" /\ Named(id)) => responses[id] = 1

\* C1 amended: nothing is sent for a call before its handler completes; when
\* the handler of a call with an id and a name completes it sends exactly one
\* FunctionCallResponse of that id if the service still holds its connection
\* handle and none if stop() has cleared it; no id is ever answered twice.
C1_OneResponseWhileConnected ==
    /\ [](\A id \in CallIds :
            /\ responses[id] <= 1
            /\ toolPc[id] # "done" => responses[id] = 0)
    /\ [][\A id \in CallIds :
            (toolPc[id] # "done" /\ toolPc'[id] = "done" /\ Named(id)) =>
                responses'[id] = IF connection # "null" THEN 1 ELSE 0]_vars

C1_Witness ==
    \E id \in CallIds :
        /\ toolPc[id] = "done"
        /\ toolName[id] = "analyze_conversation_practice"
        /\ responses[id] = 1

\* C4: no microphone frame reaches the transport before the configuration
\* message, and the capture pipeline is requested only after connectionOpened
\* has resolved.
C4_ConfigureBeforeAudio ==
    /\ audioSent > 0 => (configureSent > 0 /\ configurationComplete)
    /\ (startPc \in {"awaitMedia", "awaitModule"} \/ mic # "none") =>
           (connectionOpened = "resolved" /\ configureSent > 0)

C4_Witness == audioSent > 0 /\ worklet = "running"

\* C5: while the transport has not opened start() has not gone past its wait
\* and the microphone is untouched; the timer rejects a waiting start() with
\* the timeout error and reports it through onError; a waiting start() does
\* not wait forever: it is rejected unless the transport opens.
C5_TimeoutRejects ==
    /\ [](transport \in {"connecting", "failed"} =>
            /\ startPc \notin {"awaitMedia", "awaitModule", "resolved"}
            /\ mic = "none")
    /\ [][(TimerFired /\ startPc = "awaitOpen") =>
            /\ startPc' = "rejected"
            /\ rejectReason' = "timeout"
            /\ onErrorLog' = Append(onErrorLog, "timeout")]_vars
    /\ (startPc = "awaitOpen") ~> (startPc = "rejected" \/ transport = "open")

C5_Witness ==
    /\ transport \in {"connecting", "failed"}
    /\ startPc = "rejected"
    /\ rejectReason = "timeout"
    /\ onErrorLog = <<"timeout">>

\* C6: an Error event before configuration has completed rejects a start()
\* that is in flight and reports through onError once; an Error event after
\* it changes neither isActive, the connection, the outcome of start() nor
\* what onError was told.
C6_ErrorFatalOnlyBeforeConfiguration ==
    [][TransportError =>
        IF ~configurationComplete
        THEN IF startPc = "awaitOpen"
             THEN /\ startPc' = "rejected"
                  /\ connectionOpened' = "rejected"
                  /\ onErrorLog' = Append(onErrorLog, "transportError")
             ELSE UNCHANGED <<startPc, onErrorLog>>
        ELSE UNCHANGED <<isActive, connection, startPc, rejectReason,
                         connectionOpened, onErrorLog>>]_vars

C6_Witness ==
    /\ warnings > 0
    /\ isActive
    /\ connection # "null"
    /\ startPc = "resolved"

\* C9: stop() never lets an exception out, it leaves isActive false and the
\* four handles null, and a stop() that finds the service already stopped
\* changes nothing and makes no call.
C9_StopIdempotent ==
    [][stopCount' # stopCount =>
        /\ ~stopThrew'
        /\ ~isActive'
        /\ AllNull'
        /\ (~isActive /\ AllNull) =>
               UNCHANGED <<svcVars, transport, closeSent, configureSent, audioSent,
                           mic, micCtx, worklet, graph, calls, toolVars>>]_vars

C9_Witness ==
    /\ stopCount >= 2
    /\ calls = <<"track.stop", "postMessage", "disconnect", "closeTransport",
                 "audioContext.close">>
    /\ AllNull

\* C10: whichever call throws, stop() makes every teardown call of the
\* handles it holds, in the order tracks, stop message, disconnect,
\* transport, audio context, and leaves every handle null.
C10_EveryStepRuns ==
    [][stopCount' # stopCount =>
        /\ calls' = calls \o StopCalls({})
        /\ AllNull']_vars

End(src) == scheduled[src].start + scheduled[src].dur

TenChunks ==
    /\ Len(scheduled) = 10
    /\ \A i \in 1..10 : scheduled[i].bytes = 4800
    /\ clock = 0

\* C2: a chunk enqueued while the clock has not passed the end of the
\* previous one starts exactly where the previous one ends; ten chunks of
\* 4800 bytes enqueued with no time passing are ten abutting segments of
\* 2400 samples that span 24000 samples.
C2_GaplessSchedule ==
    /\ [][(Len(scheduled') = Len(scheduled) + 1 /\ scheduled # <<>>
           /\ clock <= End(Len(scheduled))) =>
              scheduled'[Len(scheduled')].start = End(Len(scheduled))]_vars
    /\ [](TenChunks =>
            /\ \A i \in 1..10 : scheduled[i].dur = 2400
            /\ \A i \in 1..9 : scheduled[i + 1].start = End(i)
            /\ End(10) - scheduled[1].start = 24000)

C2_Witness == TenChunks /\ nextPlayTime = 24000

StopAllStep ==
    \/ PlainTranscript /\ (isAgentSpeaking \/ activeAudioSources # <<>>)
    \/ ClickStop

\* C3: a call of stopAllAudio leaves the speaking flag false and the tracking
\* array empty, has stopped every source that was tracked, and leaves the
\* playback time at the clock of the context; with nothing tracked the
\* playback time is never ahead of the clock, so the chunk enqueued next
\* starts at the clock.
C3_InterruptResets ==
    /\ [][StopAllStep =>
            /\ ~isAgentSpeaking'
            /\ activeAudioSources' = <<>>
            /\ detached' = detached + Len(activeAudioSources)
            /\ audioContextRef' # "null" => nextPlayTime' = clock']_vars
    /\ []((audioContextRef # "null" /\ activeAudioSources = <<>>) => nextPlayTime <= clock)
    /\ [][(Len(scheduled') = Len(scheduled) + 1 /\ activeAudioSources = <<>>) =>
              scheduled'[Len(scheduled')].start = clock]_vars

C3_Witness ==
    /\ Len(scheduled) >= 2
    /\ scheduled[2].start < End(1)
    /\ scheduled[2].start = clock
    /\ detached > 0

\* C7: when the fallback timer of an analysis fires while the session is
\* still active (no persisted event has stopped it), the controller sends one
\* save-practice-history request with that analysis; otherwise it sends none.
C7_FallbackPersists ==
    [][FallbackTimerFired =>
        IF isVoiceActive /\ voiceAgentRef # "null"
        THEN saveRequests' = Append(saveRequests, Head(fallbackTimers))
        ELSE UNCHANGED saveRequests]_vars

\* C8: a user transcript with an end phrase does not stop the session but
\* sets waiting-for-feedback and arms the safety timer; when that timer fires
\* with the session still active and still waiting, the session is stopped.
C8_SafetyTimerStops ==
    /\ [][(UserTranscript /\ safetyTimers' = safetyTimers + 1) =>
            /\ waitingForFeedback'
            /\ UNCHANGED <<voiceAgentRef, isVoiceActive, connection, isActive>>]_vars
    /\ [][(SafetyTimerFired /\ waitingForFeedback /\ voiceAgentRef # "null"
           /\ isVoiceActive) =>
            /\ voiceAgentRef' = "null"
            /\ ~isVoiceActive'
            /\ connection' = "null"]_vars

\* C11: no transport that is connecting or open, no live microphone stream
\* and no running audio context is ever left without a reference from the
\* service that created it.
C11_NoOrphanedResource ==
    /\ orphaned.transport = "none"
    /\ orphaned.mic = "none"
    /\ orphaned.micCtx = "none"

\* C12: the controller never has two services with an open transport, and
\* it starts a new service only when the previous one holds no connection,
\* stream or context any more.
C12_OneLiveSession ==
    /\ [](~(orphaned.transport = "open" /\ transport = "open"))
    /\ [][startVoiceAgentAgain =>
            (connection = "null" /\ mediaStream = "null" /\ audioContext = "null")]_vars

\* C13: a start() that waits for the transport to open on a service that
\* stop() has cleared never goes on to the microphone and never resolves;
\* it is eventually rejected.
C13_StoppedStartRejects ==
    /\ [][(startPc = "awaitOpen" /\ connection = "null") =>
            startPc' \in {"awaitOpen", "rejected"}]_vars
    /\ (startPc = "awaitOpen" /\ connection = "null") ~> (startPc = "rejected")

C13_Witness ==
    /\ startPc = "rejected"
    /\ rejectReason = "configure"
    /\ connection = "null"
    /\ isActive
    /\ calls = <<"closeTransport">>

(***************************************************************************)
(* The log the events emitted so far call for: the events with content, in *)
(* emitted order, 'agent' and 'assistant' tagged assistant, every other    *)
(* role and a missing role tagged user.                                    *)
(***************************************************************************)
Classified(ev) ==
    [role |-> IF ev.role \in {"agent", "assistant"} THEN "assistant" ELSE "user",
     content |-> ev.content]
WithContent(evs) == SelectSeq(evs, LAMBDA ev : ev.content # <<>>)
ExpectedLog == [i \in 1..Len(WithContent(emitted)) |-> Classified(WithContent(emitted)[i])]
IsPrefix(a, b) == Len(a) <= Len(b) /\ SubSeq(b, 1, Len(a)) = a

\* C14: within a session the transcript log only grows at its end, and both
\* the service's log and the controller's (fed by the callbacks, in order)
\* hold exactly the text events with content emitted so far, in emitted
\* order, each tagged with its classified role.
C14_LogIsTheTextEvents ==
    /\ [](conversationHistory = ExpectedLog /\ conversationHistoryRef = ExpectedLog)
    /\ [][startVoiceAgent \/ (/\ IsPrefix(conversationHistory, conversationHistory')
                              /\ IsPrefix(conversationHistoryRef, conversationHistoryRef'))]_vars

\* a user turn the transport has just emitted, with content
UserTurnEmitted ==
    /\ Len(emitted') = Len(emitted) + 1
    /\ emitted'[Len(emitted')].role = "user"
    /\ emitted'[Len(emitted')].content # <<>>

\* C15: when a user transcript arrives while the agent is speaking (sources
\* are tracked or the speaking flag is set), then right after the handler
\* no source is tracked, the speaking flag is false, and the user's turn is
\* the last entry of the controller's log.
C15_BargeInThenTurn ==
    [][(UserTurnEmitted /\ (isAgentSpeaking \/ activeAudioSources # <<>>)) =>
          /\ activeAudioSources' = <<>>
          /\ ~isAgentSpeaking'
          /\ Len(conversationHistoryRef') = Len(conversationHistoryRef) + 1
          /\ conversationHistoryRef'[Len(conversationHistoryRef')] =
                 [role |-> "user", content |-> emitted'[Len(emitted')].content]]_vars
\* a turn has been logged after stopping sources that were still playing
C15_Witness ==
    /\ transport = "open"
    /\ detached > 0
    /\ activeAudioSources = <<>>
    /\ ~isAgentSpeaking
    /\ conversationHistoryRef = <<[role |-> "user", content |-> <<"o", "k">>]>>

\* an Audio event whose payload is odd or shorter than 2 bytes
MalformedChunkArrives ==
    \E k \in AudioKinds, len \in DropChunkBytes : ~ValidChunk(len) /\ OnAudio(k, len)

\* C16: a chunk of odd length or of fewer than 2 bytes leaves the playback
\* time, the tracking array and the timeline as they were, and no source on
\* the timeline was ever made from such a chunk, so the chunks that follow
\* are scheduled from the same state as without it.
C16_MalformedChunkDropped ==
    /\ [][MalformedChunkArrives =>
             UNCHANGED <<nextPlayTime, activeAudioSources, scheduled, clock, detached>>]_vars
    /\ [](\A i \in 1..Len(scheduled) : ValidChunk(scheduled[i].bytes))
\* a malformed chunk has arrived in an open session (the speaking flag is
\* set by the callback) and nothing was scheduled
C16_Witness ==
    /\ transport = "open"
    /\ audioContextRef # "null"
    /\ isAgentSpeaking
    /\ scheduled = <<>>
    /\ activeAudioSources = <<>>
    /\ nextPlayTime = 0

\* C17: every chunk that is scheduled starts at the later of the clock and
\* the playback time, hence at the clock when the clock has reached the
\* playback time; each interval on the timeline starts after the start and
\* not before the end of the one enqueued before it, so the intervals are
\* in enqueue order and never overlap.
C17_StartsAtMaxOfClockAndNext ==
    /\ [][Len(scheduled') = Len(scheduled) + 1 =>
             /\ scheduled'[Len(scheduled')].start = Max(clock, nextPlayTime)
             /\ clock >= nextPlayTime => scheduled'[Len(scheduled')].start = clock
             /\ nextPlayTime' = scheduled'[Len(scheduled')].start
                                   + scheduled'[Len(scheduled')].dur]_vars
    /\ [](\A i \in 1..(Len(scheduled) - 1) :
             /\ End(i) <= scheduled[i + 1].start
             /\ scheduled[i].start < scheduled[i + 1].start)
\* a chunk enqueued after the previous one had finished started at the clock
C17_Witness ==
    /\ Len(scheduled) = 2
    /\ scheduled[2].start > End(1)
    /\ scheduled[2].start = clock

\* the round trip of a call of the named function settles with a result
Succeeds(name) ==
    \E id \in CallIds : toolName[id] = name /\ FetchSettled(id, "ok")

\* C18: when the round trip of an analyze call succeeds the controller's
\* "analysis complete" callback runs (the fallback timer it arms is pending
\* afterwards), and when the round trip of a persist call succeeds the
\* controller's "save complete" callback runs (it navigates to the result).
C18_BridgeNotifiesController ==
    /\ [][Succeeds("analyze_conversation_practice") =>
             Len(fallbackTimers') = Len(fallbackTimers) + 1]_vars
    /\ [][Succeeds("save_conversation_to_history") => navigated']_vars

\* C19: when the round trip of a tool call settles after stop() has been
\* called, one FunctionCallResponse is sent if the service holds a
\* connection handle and none if the handle is null, and the step changes
\* nothing else: no field of the service (isActive included) and no
\* resource.
C19_LateToolCallOnlyAnswers ==
    [][\A id \in CallIds :
          (stopCount > 0 /\ toolPc[id] = "fetching" /\ toolPc'[id] = "done") =>
              /\ responses'[id] = responses[id] + (IF connection # "null" THEN 1 ELSE 0)
              /\ \A other \in CallIds \ {id} : responses'[other] = responses[other]
              /\ UNCHANGED <<svcVars, resVars>>]_vars
\* the round trip of an analyze call settled after stop() had cleared the
\* handle: the call is done, nothing was sent, the session is still inactive
C19_Witness ==
    \E id \in CallIds :
        /\ stopCount > 0
        /\ connection = "null"
        /\ ~isActive
        /\ toolPc[id] = "done"
        /\ toolName[id] = "analyze_conversation_practice"
        /\ toolArgs[id] # "invalid"
        /\ responses[id] = 0

\* C20: once an end phrase has begun the end-of-conversation sequence
\* (conversationEnded and waitingForFeedback are set), every Error event of
\* the transport that the handlers take note of is passed to onError.
C20_ErrorsSurfacedAfterEnd ==
    [][(conversationEnded /\ waitingForFeedback /\ CtlError) =>
          Len(onErrorLog') = Len(onErrorLog) + 1]_vars

\* C21: in coach mode the Settings message declares no function and a
\* FunctionCallRequest leads to no backend request and no
\* FunctionCallResponse; in practice mode the Settings message declares the
\* two functions and a FunctionCallRequest is taken up by the handler.
C21_ToolsOnlyInPractice ==
    /\ [](mode = "coach" =>
            /\ settingsFunctions = {}
            /\ \A id \in CallIds : toolPc[id] \in {"none", "unhandled"} /\ responses[id] = 0)
    /\ []((mode = "practice" /\ configureSent > 0) =>
            settingsFunctions = {"analyze_conversation_practice",
                                 "save_conversation_to_history"})
    /\ [][\A id \in CallIds :
            (mode = "practice" /\ toolPc[id] = "none" /\ toolPc'[id] # "none") =>
                toolPc'[id] = "queued"]_vars
\* a coach session has been configured and the transport has raised a
\* FunctionCallRequest for the analyze function
C21_Witness ==
    \E id \in CallIds :
        /\ mode = "coach"
        /\ configureSent > 0
        /\ toolPc[id] = "unhandled"
        /\ toolName[id] = "analyze_conversation_practice"

\* the letter a character is a case of
Fold(c) == IF \E k \in 1..26 : Upper[k] = c THEN Lower[CHOOSE k \in 1..26 : Upper[k] = c] ELSE c
\* t holds the fragment at some position, whatever the case of its letters
ContainsAnyCase(t, fragment) ==
    \E i \in 1..(Len(t) - Len(fragment) + 1) :
        \A k \in 1..Len(fragment) : Fold(t[i + k - 1]) = fragment[k]
HoldsEndSignal(t) == \E k \in 1..Len(endSignals) : ContainsAnyCase(t, endSignals[k])

\* C22: checkForEndSignal is true of exactly the transcripts that hold a
\* listed fragment in some letter case: of "let's end this now" and
\* "LET'S END", not of "I ended up going home"; the end-of-conversation
\* sequence has begun exactly when a user turn emitted so far holds one.
C22_EndSignalIsSubstringMatch ==
    /\ \A t \in Phrases : checkForEndSignal(t) <=> HoldsEndSignal(t)
    /\ checkForEndSignal(<<"l", "e", "t", "'", "s", " ", "e", "n", "d", " ", "t", "h", "i", "s", " ", "n", "o", "w">>)
    /\ checkForEndSignal(<<"L", "E", "T", "'", "S", " ", "E", "N", "D">>)
    /\ ~checkForEndSignal(<<"I", " ", "e", "n", "d", "e", "d", " ", "u", "p", " ", "g", "o", "i", "n", "g", " ", "h", "o", "m", "e">>)
    /\ conversationEnded <=>
           \E i \in 1..Len(emitted) : HoldsEndSignal(emitted[i].content)
\* the user has said "LET'S END" after a turn without an end signal
C22_Witness ==
    /\ Len(emitted) = 2
    /\ emitted[1].content = <<"I", " ", "e", "n", "d", "e", "d", " ", "u", "p", " ", "g", "o", "i", "n", "g", " ", "h", "o", "m", "e">>
    /\ emitted[2].content = <<"L", "E", "T", "'", "S", " ", "E", "N", "D">>
    /\ conversationEnded
    /\ safetyTimers = 1

\* C23: once start() has been rejected, or stop() has cleared the connection
\* handle, no later step makes the service active and none sends a Settings
\* message.
C23_NoLateActivation ==
    [][(startPc = "rejected" \/ (stopCount > 0 /\ connection = "null")) =>
          /\ isActive' => isActive
          /\ configureSent' = configureSent]_vars

\* C24: a ConversationText event with content is appended to the service's
\* log and, through its callback, to the controller's: as an assistant turn
\* when its role is 'agent' or 'assistant', as a user turn for every other
\* role and for a missing role; an event without content changes neither
\* log and nothing of the controller.
C24_ClassifiesTextEvent ==
    [][Len(emitted') = Len(emitted) + 1 =>
          LET ev == emitted'[Len(emitted')]
          IN  IF ev.content = <<>>
              THEN UNCHANGED <<conversationHistory, ctlVars, playVars>>
              ELSE /\ conversationHistory' = Append(conversationHistory, Classified(ev))
                   /\ conversationHistoryRef' =
                          Append(conversationHistoryRef, Classified(ev))]_vars

\* C25: in every state the agent-speaking flag is set exactly when a
\* playback source is tracked.
C25_SpeakingIffTracked == isAgentSpeaking <=> activeAudioSources # <<>>

\* C26: in every state of the service, isActive implies that the connection
\* handle is set.
C26_ActiveHasConnection == isActive => connection # "null"

\* C27: once start() has settled on a service whose connection handle
\* stop() has cleared, the service holds no microphone stream, no capture
\* node and no audio context, and neither a stream nor a context is live.
C27_StoppedStartHoldsNothing ==
    (startPc \in {"resolved", "rejected"} /\ stopCount > 0 /\ connection = "null") =>
        /\ mediaStream = "null"
        /\ audioProcessor = "null"
        /\ audioContext = "null"
        /\ mic # "live"
        /\ micCtx # "running"

\* C28: no microphone frame is sent to the transport once stop() has
\* cleared the connection handle, once the transport has closed, or once
\* the worklet has taken the stop message.
C28_NoFrameAfterStopOrClose ==
    [][((stopCount > 0 /\ connection = "null")
        \/ transport \in {"closed", "failed"}
        \/ worklet = "stopped") => audioSent' = audioSent]_vars
\* frames were being sent, stop() has returned, and the worklet has not yet
\* taken the stop message: the frames it still posts reach port.onmessage
C28_Witness ==
    /\ stopCount > 0
    /\ connection = "null"
    /\ worklet = "stopping"
    /\ audioSent > 0

\* C29: in a session at most one 30 s safety timer is pending, and a user
\* turn with an end signal that follows another one arms no timer.
C29_OneSafetyTimer ==
    /\ [](safetyTimers <= 1)
    /\ [][(conversationEnded /\ Len(emitted') = Len(emitted) + 1) =>
             safetyTimers' = safetyTimers]_vars

\* C30: when the start() of the controller's session has been rejected the
\* controller holds no session and no playback context, and the session's
\* transport is closed or was asked to close.
C30_RejectedStartReleases ==
    startPc = "rejected" =>
        /\ voiceAgentRef = "null"
        /\ audioContextRef = "null"
        /\ transport \notin {"connecting", "open"} \/ closeSent # "none"

==========================================================================
